---- MODULE Spec2Model ----
(***************************************************************************)
(* Model of src/src/notify.rs: the notification channel of an event loop.  *)
(* Producer threads call notify; one consumer thread calls check and poll  *)
(* and blocks in its readiness poll; any handle may call cleanup.          *)
(*                                                                         *)
(* The atomic cell `state` is read and written by single atomic steps      *)
(* (load, compare_and_swap); every step of this model is one such access   *)
(* or one call into the queue or the awakener, interleaved in any order    *)
(* (sequentially consistent interleaving of the atomic accesses).          *)
(***************************************************************************)
EXTENDS Integers, Sequences, FiniteSets, TLC

\* ---------------------------------------------------------------- bounds
WordBits == 4          \* width of int / uint in the model (two's complement)
Capacity == 1          \* capacity given to with_capacity
MaxNotify == 2         \* notify calls made in one run, over all producers
MaxChecks == 2         \* check calls made by the consumer in one run
MaxCleanup == 2        \* cleanup calls made in one run

Producers == {"p1", "p2"}
Consumer == "c"
Handles == Producers \cup {Consumer}

\* ------------------------------------------------------- machine integers
SLEEP == -1

Modulus == 2 ^ WordBits
IntMin == -(2 ^ (WordBits - 1))
IntMax == 2 ^ (WordBits - 1) - 1
UintMax == Modulus - 1

\* two's complement wrap-around of an int result
Wrap(x) == ((x - IntMin) % Modulus) + IntMin

\* `max as int`
AsInt(u) == Wrap(u)

\* `cur as uint`
AsUint(i) == i % Modulus

\* the values of max the consumer passes: small ones, and values above the
\* largest signed integer
Maxes == {0, 1, 2, IntMax + 1, IntMax + 3, UintMax}

\* -------------------------------------------------------------- messages
Msg(p, k) == <<p, k>>

VARIABLES
    state,        \* NotifyInner.state
    queue,        \* NotifyInner.queue, oldest first
    released,     \* NotifyInner.awaken: its OS resource was released
    wakeFlag,     \* NotifyInner.awaken: a wakeup is readable on its descriptor
    pc,           \* producer -> position in notify
    cur,          \* producer -> local `cur` of notify
    res,          \* producer -> how its last notify ended
    sent,         \* producer -> notify calls started
    rejected,     \* producer -> its last notify found the queue full
    wakeErr,      \* producer -> its last notify's wakeup failed
    cpc,          \* consumer position
    ccur,         \* consumer: local `cur` of check
    cmax,         \* consumer: argument max of check (uint)
    cws,          \* consumer: argument will_sleep of check
    cret,         \* consumer: value check is returning
    cnxt,         \* consumer: value the successful compare_and_swap of check wrote
    mayBlock,     \* consumer: its last check was check(_, true) and returned 0
    drained,      \* consumer: a poll returned empty since the last check
    nchecks,      \* check calls started
    accepted,     \* messages pushed by notify
    polled,       \* messages returned by poll, in order
    emptyAfterDone, \* a poll returned empty with no notify in flight, no push since
    claimed,      \* sum of the values returned by check
    wakes,        \* calls of awaken.wakeup()
    sleepTo1,     \* successful notify updates that observed SLEEP
    wokenSinceSleep, \* a wakeup was called since check last wrote SLEEP
    armed,        \* check(_, true) wrote SLEEP and no notify update succeeded since
    asleep,       \* as armed, and no check(_, false) update succeeded since either
    wasArmed,     \* producer -> `armed` held when its update succeeded
    wasAsleep,    \* producer -> `asleep` held when its update succeeded
    wrote,        \* producer -> value its last successful update wrote
    nwake,        \* producer -> wakeup calls made by its last notify
    cleanups,     \* cleanup calls made
    releases,     \* times the OS resource was released
    cleanupErrs,  \* cleanup calls that failed
    wakeAfterRelease, \* awaken.wakeup() was called after the resource was released
    owed,         \* poll calls left of the count the last check returned
    shortPoll,    \* a poll within that count found the queue empty
    polledUnclaimed, \* poll returned a message outside any such count
    earlyPoll,    \* as polledUnclaimed, before the message's notify updated the state
    overClaimed   \* a check returned another count than it took off the state

prodVars == <<pc, cur, res, sent, rejected, wakeErr>>
consVars == <<cpc, ccur, cmax, cws, cret, cnxt, mayBlock, drained, nchecks>>
histVars == <<accepted, polled, emptyAfterDone, claimed, wakes, sleepTo1,
              wokenSinceSleep, armed, asleep, wasArmed, wasAsleep,
              wrote, nwake>>
cleanVars == <<released, cleanups, releases, cleanupErrs>>
lifeVars == <<wakeAfterRelease>>
claimVars == <<owed, shortPoll, polledUnclaimed, earlyPoll, overClaimed>>
vars == <<state, queue, wakeFlag, prodVars, consVars, histVars, cleanVars,
          lifeVars, claimVars>>

\* NotifyInner::with_capacity
Init ==
    /\ state = 0
    /\ queue = <<>>
    /\ released = FALSE
    /\ wakeFlag = FALSE
    /\ pc = [p \in Producers |-> "idle"]
    /\ cur = [p \in Producers |-> 0]
    /\ res = [p \in Producers |-> "none"]
    /\ sent = [p \in Producers |-> 0]
    /\ rejected = [p \in Producers |-> FALSE]
    /\ wakeErr = [p \in Producers |-> FALSE]
    /\ cpc = "ready"
    /\ ccur = 0
    /\ cmax = 0
    /\ cws = FALSE
    /\ cret = 0
    /\ cnxt = 0
    /\ mayBlock = FALSE
    /\ drained = FALSE
    /\ nchecks = 0
    /\ accepted = {}
    /\ polled = <<>>
    /\ emptyAfterDone = FALSE
    /\ claimed = 0
    /\ wakes = 0
    /\ sleepTo1 = 0
    /\ wokenSinceSleep = FALSE
    /\ armed = FALSE
    /\ asleep = FALSE
    /\ wasArmed = [p \in Producers |-> FALSE]
    /\ wasAsleep = [p \in Producers |-> FALSE]
    /\ wrote = [p \in Producers |-> 0]
    /\ nwake = [p \in Producers |-> 0]
    /\ cleanups = 0
    /\ releases = 0
    /\ cleanupErrs = 0
    /\ wakeAfterRelease = FALSE
    /\ owed = 0
    /\ shortPoll = FALSE
    /\ polledUnclaimed = FALSE
    /\ earlyPoll = FALSE
    /\ overClaimed = FALSE

\* ------------------------------------------------------- pure functions

\* a check that never writes SLEEP
CheckNxtNeverSleeps(c, max, will_sleep) ==
    IF c > 0
    THEN IF max >= c THEN 0 ELSE Wrap(c - max)
    ELSE 0

\* check, the body of its loop: the value it tries to write
CheckNxt(c, max, will_sleep) ==
    IF c > 0
    THEN IF max >= c THEN 0 ELSE Wrap(c - max)
    ELSE IF will_sleep THEN SLEEP ELSE 0

\* check, its result
CheckRet(c) == IF c < 0 THEN 0 ELSE AsUint(c)

\* check observed c > 0 and returns another count than the c - nxt it takes
\* off the state
CheckOverClaims(c, max, will_sleep) ==
    c > 0 /\ CheckRet(c) # c - CheckNxt(c, max, will_sleep)

\* a notify that adds one to whatever it observed, SLEEP included
NotifyNxtNoSleepCase(c) == Wrap(c + 1)

\* a notify that counts its message twice
NotifyNxtCountsTwice(c) == IF c = SLEEP THEN 2 ELSE Wrap(c + 2)

\* notify, the body of its loop: the value it tries to write
NotifyNxt(c) == IF c = SLEEP THEN 1 ELSE Wrap(c + 1)

\* a notify that also wakes an idle (not sleeping) event loop
MustWakeWhenIdle(c) == c <= 0

\* a notify that never calls awaken.wakeup()
MustWakeNever(c) == FALSE

\* notify, whether it calls awaken.wakeup() after its update
MustWake(c) == c = SLEEP

\* ------------------------------------------------------- collaborators

\* BoundedQueue::push refuses when the queue holds `Capacity` messages
QueueFull(q) == Len(q) >= Capacity

\* Awakener::wakeup succeeds (TRUE) or returns an error (FALSE)
WakeupOutcomes == {TRUE, FALSE}

\* Awakener::cleanup releases the OS resource; calling it again is harmless
AwakenerCleanup ==
    /\ released' = TRUE
    /\ releases' = IF released THEN releases ELSE releases + 1
    /\ cleanupErrs' = cleanupErrs

RECURSIVE SumOver(_, _)
SumOver(f, S) ==
    IF S = {} THEN 0
    ELSE LET x == CHOOSE y \in S : TRUE IN f[x] + SumOver(f, S \ {x})

TotalSent == SumOver(sent, Producers)

\* no notify call is in progress
Quiescent == \A p \in Producers : pc[p] \in {"idle", "panicked"}

\* ------------------------------------------------------------- notify

\* notify: push the message, panic when the queue is full
NotifyPush(p) ==
    /\ pc[p] = "idle"
    /\ TotalSent < MaxNotify
    /\ sent' = [sent EXCEPT ![p] = @ + 1]
    /\ emptyAfterDone' = FALSE
    /\ IF ~QueueFull(queue)
       THEN /\ queue' = Append(queue, Msg(p, sent[p] + 1))
            /\ accepted' = accepted \cup {Msg(p, sent[p] + 1)}
            /\ pc' = [pc EXCEPT ![p] = "load"]
            /\ UNCHANGED <<rejected, res>>
       ELSE /\ rejected' = [rejected EXCEPT ![p] = TRUE]
            /\ pc' = [pc EXCEPT ![p] = "panicked"]
            /\ res' = [res EXCEPT ![p] = "panic"]
            /\ UNCHANGED <<queue, accepted>>
    /\ UNCHANGED <<state, wakeFlag, cur, wakeErr, consVars, polled, claimed,
                   wakes, sleepTo1, wokenSinceSleep, armed, asleep, wasArmed,
                   wasAsleep, wrote, nwake, cleanVars, lifeVars, claimVars>>

\* notify: let mut cur = self.state.load(Relaxed)
NotifyLoad(p) ==
    /\ pc[p] = "load"
    /\ cur' = [cur EXCEPT ![p] = state]
    /\ pc' = [pc EXCEPT ![p] = "cas"]
    /\ UNCHANGED <<state, queue, wakeFlag, res, sent, rejected, wakeErr,
                   consVars, histVars, cleanVars, lifeVars, claimVars>>

\* a compare_and_swap loop that retries with the value it first read
NotifyCasNoReload(p) ==
    /\ pc[p] = "cas"
    /\ IF state = cur[p]
       THEN /\ state' = NotifyNxt(cur[p])
            /\ wrote' = [wrote EXCEPT ![p] = NotifyNxt(cur[p])]
            /\ wasArmed' = [wasArmed EXCEPT ![p] = armed]
            /\ wasAsleep' = [wasAsleep EXCEPT ![p] = asleep]
            /\ armed' = FALSE
            /\ asleep' = FALSE
            /\ sleepTo1' = IF cur[p] = SLEEP THEN sleepTo1 + 1 ELSE sleepTo1
            /\ IF MustWake(cur[p])
               THEN /\ pc' = [pc EXCEPT ![p] = "wake"]
                    /\ res' = res
               ELSE /\ pc' = [pc EXCEPT ![p] = "ret"]
                    /\ res' = [res EXCEPT ![p] = "ok"]
       ELSE UNCHANGED <<state, wrote, wasArmed, wasAsleep, armed, asleep,
                        sleepTo1, pc, res>>
    /\ UNCHANGED <<queue, wakeFlag, cur, sent, rejected, wakeErr, consVars,
                   accepted, polled, emptyAfterDone, claimed, wakes,
                   wokenSinceSleep, nwake, cleanVars, lifeVars, claimVars>>

\* notify: one turn of the compare_and_swap loop, and the return when no
\* wakeup is due
NotifyCas(p) ==
    /\ pc[p] = "cas"
    /\ IF state = cur[p]
       THEN /\ state' = NotifyNxt(cur[p])
            /\ wrote' = [wrote EXCEPT ![p] = NotifyNxt(cur[p])]
            /\ wasArmed' = [wasArmed EXCEPT ![p] = armed]
            /\ wasAsleep' = [wasAsleep EXCEPT ![p] = asleep]
            /\ armed' = FALSE
            /\ asleep' = FALSE
            /\ sleepTo1' = IF cur[p] = SLEEP THEN sleepTo1 + 1 ELSE sleepTo1
            /\ IF MustWake(cur[p])
               THEN /\ pc' = [pc EXCEPT ![p] = "wake"]
                    /\ res' = res
               ELSE /\ pc' = [pc EXCEPT ![p] = "ret"]
                    /\ res' = [res EXCEPT ![p] = "ok"]
            /\ cur' = cur
       ELSE /\ cur' = [cur EXCEPT ![p] = state]
            /\ UNCHANGED <<state, wrote, wasArmed, wasAsleep, armed, asleep,
                           sleepTo1, pc, res>>
    /\ UNCHANGED <<queue, wakeFlag, sent, rejected, wakeErr, consVars,
                   accepted, polled, emptyAfterDone, claimed, wakes,
                   wokenSinceSleep, nwake, cleanVars, lifeVars, claimVars>>

\* notify: self.awaken.wakeup(), panic when it fails, else Ok(())
NotifyWake(p) ==
    /\ pc[p] = "wake"
    /\ wakes' = wakes + 1
    /\ nwake' = [nwake EXCEPT ![p] = @ + 1]
    /\ wokenSinceSleep' = TRUE
    /\ wakeAfterRelease' = (wakeAfterRelease \/ released)
    /\ \E ok \in WakeupOutcomes :
         IF ok
         THEN /\ wakeFlag' = TRUE
              /\ pc' = [pc EXCEPT ![p] = "ret"]
              /\ res' = [res EXCEPT ![p] = "ok"]
              /\ wakeErr' = wakeErr
         ELSE /\ wakeFlag' = wakeFlag
              /\ pc' = [pc EXCEPT ![p] = "panicked"]
              /\ res' = [res EXCEPT ![p] = "panic"]
              /\ wakeErr' = [wakeErr EXCEPT ![p] = TRUE]
    /\ UNCHANGED <<state, queue, cur, sent, rejected, consVars, accepted,
                   polled, emptyAfterDone, claimed, sleepTo1, armed, asleep,
                   wasArmed, wasAsleep, wrote, cleanVars, claimVars>>

\* notify: the call returns Ok(()) and its locals go out of scope
NotifyReturn(p) ==
    /\ pc[p] = "ret"
    /\ pc' = [pc EXCEPT ![p] = "idle"]
    /\ cur' = [cur EXCEPT ![p] = 0]
    /\ res' = [res EXCEPT ![p] = "none"]
    /\ wasArmed' = [wasArmed EXCEPT ![p] = FALSE]
    /\ wasAsleep' = [wasAsleep EXCEPT ![p] = FALSE]
    /\ wrote' = [wrote EXCEPT ![p] = 0]
    /\ nwake' = [nwake EXCEPT ![p] = 0]
    /\ UNCHANGED <<state, queue, wakeFlag, sent, rejected, wakeErr, consVars,
                   accepted, polled, emptyAfterDone, claimed, wakes, sleepTo1,
                   wokenSinceSleep, armed, asleep, cleanVars, lifeVars, claimVars>>

\* -------------------------------------------------------------- check

\* check: let max = max as int; let mut cur = self.state.load(Relaxed)
CheckStart(max, will_sleep) ==
    /\ cpc = "ready"
    /\ nchecks < MaxChecks
    /\ nchecks' = nchecks + 1
    /\ ccur' = state
    /\ cmax' = max
    /\ cws' = will_sleep
    /\ cpc' = "cas"
    /\ mayBlock' = FALSE
    /\ drained' = FALSE
    /\ UNCHANGED <<state, queue, wakeFlag, prodVars, cret, cnxt, histVars,
                   cleanVars, lifeVars, claimVars>>

\* check: one turn of the compare_and_swap loop, and the value to return
CheckCas ==
    /\ cpc = "cas"
    /\ IF state = ccur
       THEN /\ state' = CheckNxt(ccur, AsInt(cmax), cws)
            /\ cret' = CheckRet(ccur)
            /\ cnxt' = CheckNxt(ccur, AsInt(cmax), cws)
            /\ claimed' = claimed + CheckRet(ccur)
            /\ mayBlock' = (cws /\ CheckRet(ccur) = 0)
            /\ IF cws /\ CheckNxt(ccur, AsInt(cmax), cws) = SLEEP
               THEN armed' = TRUE /\ asleep' = TRUE /\ wokenSinceSleep' = FALSE
               ELSE /\ asleep' = (asleep /\ cws)
                    /\ UNCHANGED <<armed, wokenSinceSleep>>
            /\ overClaimed' = (overClaimed \/ CheckOverClaims(ccur, AsInt(cmax), cws))
            /\ IF overClaimed \/ CheckOverClaims(ccur, AsInt(cmax), cws)
               THEN /\ owed' = 0
                    /\ shortPoll' = FALSE
                    /\ polledUnclaimed' = FALSE
                    /\ earlyPoll' = FALSE
               ELSE /\ owed' = CheckRet(ccur)
                    /\ UNCHANGED <<shortPoll, polledUnclaimed, earlyPoll>>
            /\ cpc' = "ret"
            /\ ccur' = ccur
       ELSE /\ ccur' = state
            /\ UNCHANGED <<state, cret, cnxt, claimed, mayBlock, armed, asleep,
                           wokenSinceSleep, cpc, claimVars>>
    /\ UNCHANGED <<queue, wakeFlag, prodVars, cmax, cws, drained, nchecks,
                   accepted, polled, emptyAfterDone, wakes, sleepTo1,
                   wasArmed, wasAsleep, wrote, nwake, cleanVars, lifeVars>>

\* check: the call returns cret and its locals go out of scope
CheckReturn ==
    /\ cpc = "ret"
    /\ cpc' = "ready"
    /\ ccur' = 0
    /\ cmax' = 0
    /\ cws' = FALSE
    /\ cret' = 0
    /\ cnxt' = 0
    /\ UNCHANGED <<state, queue, wakeFlag, prodVars, mayBlock, drained,
                   nchecks, histVars, cleanVars, lifeVars, claimVars>>

\* --------------------------------------------------------------- poll

\* what a poll call means for the count the last check returned: one call
\* less is left of it; a call within it that finds the queue empty is short,
\* a message returned outside it was not claimed. The account is kept until
\* the first check that returns another count than it took
PollClaim ==
    IF overClaimed
    THEN UNCHANGED <<owed, shortPoll, polledUnclaimed, earlyPoll>>
    ELSE /\ owed' = IF owed > 0 THEN owed - 1 ELSE 0
         /\ shortPoll' = (shortPoll \/ (owed > 0 /\ queue = <<>>))
         /\ polledUnclaimed' = (polledUnclaimed \/ (owed = 0 /\ queue # <<>>))
         /\ earlyPoll' = (earlyPoll \/ (/\ owed = 0
                                        /\ queue # <<>>
                                        /\ pc[Head(queue)[1]] \in {"load", "cas"}))

\* a poll that reads the oldest message and leaves it in the queue
PollWithoutRemove ==
    /\ cpc = "ready"
    /\ PollClaim
    /\ IF queue # <<>>
       THEN /\ polled' = Append(polled, Head(queue))
            /\ UNCHANGED <<queue, drained, emptyAfterDone>>
       ELSE /\ drained' = TRUE
            /\ emptyAfterDone' = Quiescent
            /\ UNCHANGED <<polled, queue>>
    /\ UNCHANGED <<state, wakeFlag, prodVars, cpc, ccur, cmax, cws, cret,
                   cnxt, mayBlock, nchecks, accepted, claimed, wakes,
                   sleepTo1, wokenSinceSleep, armed, asleep, wasArmed,
                   wasAsleep, wrote, nwake, cleanVars, lifeVars, overClaimed>>

\* a poll that also takes the message it returns off the pending count
PollDecrementsPending ==
    /\ cpc = "ready"
    /\ PollClaim
    /\ IF queue # <<>>
       THEN /\ polled' = Append(polled, Head(queue))
            /\ queue' = Tail(queue)
            /\ state' = IF state > 0 THEN state - 1 ELSE state
            /\ UNCHANGED <<drained, emptyAfterDone>>
       ELSE /\ drained' = TRUE
            /\ emptyAfterDone' = Quiescent
            /\ UNCHANGED <<polled, queue, state>>
    /\ UNCHANGED <<wakeFlag, prodVars, cpc, ccur, cmax, cws, cret,
                   cnxt, mayBlock, nchecks, accepted, claimed, wakes,
                   sleepTo1, wokenSinceSleep, armed, asleep, wasArmed, wasAsleep,
                   wrote, nwake, cleanVars, lifeVars, overClaimed>>

\* poll: self.queue.pop()
Poll ==
    /\ cpc = "ready"
    /\ PollClaim
    /\ IF queue # <<>>
       THEN /\ polled' = Append(polled, Head(queue))
            /\ queue' = Tail(queue)
            /\ UNCHANGED <<drained, emptyAfterDone>>
       ELSE /\ drained' = TRUE
            /\ emptyAfterDone' = Quiescent
            /\ UNCHANGED <<polled, queue>>
    /\ UNCHANGED <<state, wakeFlag, prodVars, cpc, ccur, cmax, cws, cret,
                   cnxt, mayBlock, nchecks, accepted, claimed, wakes,
                   sleepTo1, wokenSinceSleep, armed, asleep, wasArmed, wasAsleep,
                   wrote, nwake, cleanVars, lifeVars, overClaimed>>

\* ------------------------------------------- the consumer's blocking wait

\* the event loop blocks once check(_, true) returned 0 and poll ran empty
Block ==
    /\ cpc = "ready"
    /\ mayBlock
    /\ drained
    /\ cpc' = "blocked"
    /\ UNCHANGED <<state, queue, wakeFlag, prodVars, ccur, cmax, cws, cret,
                   cnxt, mayBlock, drained, nchecks, histVars, cleanVars,
                   lifeVars, claimVars>>

\* the blocked event loop is woken by the awakener's descriptor
Wake ==
    /\ cpc = "blocked"
    /\ wakeFlag
    /\ wakeFlag' = FALSE
    /\ cpc' = "ready"
    /\ mayBlock' = FALSE
    /\ drained' = FALSE
    /\ UNCHANGED <<state, queue, prodVars, ccur, cmax, cws, cret,
                   cnxt, nchecks, histVars, cleanVars, lifeVars, claimVars>>

\* the blocked event loop returns for another reason (timeout, other event)
Timeout ==
    /\ cpc = "blocked"
    /\ cpc' = "ready"
    /\ mayBlock' = FALSE
    /\ drained' = FALSE
    /\ UNCHANGED <<state, queue, wakeFlag, prodVars, ccur, cmax, cws, cret,
                   cnxt, nchecks, histVars, cleanVars, lifeVars, claimVars>>

\* ------------------------------------------------------------ cleanup

\* a cleanup that releases the descriptor itself on every call
CleanupReleasesEachTime(h) ==
    /\ cleanups < MaxCleanup
    /\ cleanups' = cleanups + 1
    /\ released' = TRUE
    /\ releases' = releases + 1
    /\ cleanupErrs' = cleanupErrs
    /\ UNCHANGED <<state, queue, wakeFlag, prodVars, consVars, histVars,
                   lifeVars, claimVars>>

\* cleanup: self.awaken.cleanup()
Cleanup(h) ==
    /\ cleanups < MaxCleanup
    /\ cleanups' = cleanups + 1
    /\ AwakenerCleanup
    /\ UNCHANGED <<state, queue, wakeFlag, prodVars, consVars, histVars,
                   lifeVars, claimVars>>

\* ------------------------------------------------------ specification

\* the operations on the state and the queue: notify, check, poll and the
\* consumer's wait
NextChannel ==
    \/ \E p \in Producers : NotifyPush(p)
    \/ \E p \in Producers : NotifyLoad(p)
    \/ \E p \in Producers : NotifyCas(p)
    \/ \E p \in Producers : NotifyWake(p)
    \/ \E p \in Producers : NotifyReturn(p)
    \/ \E max \in Maxes, will_sleep \in BOOLEAN : CheckStart(max, will_sleep)
    \/ CheckCas
    \/ CheckReturn
    \/ Poll
    \/ Block
    \/ Wake
    \/ Timeout

\* the operations that use the awakener: notify (with the check that lets it
\* observe SLEEP) and cleanup
NextAwakener ==
    \/ \E p \in Producers : NotifyPush(p)
    \/ \E p \in Producers : NotifyLoad(p)
    \/ \E p \in Producers : NotifyCas(p)
    \/ \E p \in Producers : NotifyWake(p)
    \/ \E p \in Producers : NotifyReturn(p)
    \/ \E max \in Maxes, will_sleep \in BOOLEAN : CheckStart(max, will_sleep)
    \/ CheckCas
    \/ CheckReturn
    \/ \E h \in Handles : Cleanup(h)

Next == NextChannel \/ NextAwakener

\* every operation, in any interleaving
Spec == Init /\ [][Next]_vars

\* cleanup reads and writes cleanVars only; no other operation writes them,
\* and they are read only to record wakeAfterRelease: a property of the
\* other variables holds under Spec exactly when it holds under SpecChannel,
\* and a property of cleanVars and lifeVars holds under Spec exactly when it
\* holds under SpecAwakener
SpecChannel == Init /\ [][NextChannel]_vars

SpecAwakener == Init /\ [][NextAwakener]_vars

\* SpecChannel under fair scheduling: a thread inside notify or check takes
\* its next step, the consumer polls while the queue holds a message, and a
\* readable wake signal ends its wait. Nothing obliges a thread to start a
\* call, the consumer to block, or a timeout to come.
SpecLive ==
    /\ Init
    /\ [][NextChannel]_vars
    /\ \A p \in Producers :
          /\ WF_vars(NotifyLoad(p))
          /\ WF_vars(NotifyCas(p))
          /\ WF_vars(NotifyWake(p))
          /\ WF_vars(NotifyReturn(p))
    /\ WF_vars(CheckCas)
    /\ WF_vars(CheckReturn)
    /\ WF_vars(Poll)
    /\ WF_vars(Wake)

\* ------------------------------------------------------------ helpers

Min(a, b) == IF a <= b THEN a ELSE b

Range(q) == {q[i] : i \in 1..Len(q)}

NoDup(q) == \A i, j \in 1..Len(q) : q[i] = q[j] => i = j

\* the pending count the state holds, 0 when the state is SLEEP
Pending == IF state = SLEEP THEN 0 ELSE state

\* a notify call of p has finished its state update (or died after it)
Updated(p) == pc[p] \in {"wake", "ret"} \/ (pc[p] = "panicked" /\ wakeErr[p])

\* a wakeup was called since check wrote SLEEP, or a notify in flight is
\* about to call it, or one is in flight that still has to update a state
\* that is SLEEP
WakePending ==
    \/ wokenSinceSleep
    \/ \E p \in Producers : pc[p] = "wake"
    \/ state = SLEEP /\ \E p \in Producers : pc[p] \in {"load", "cas"}

\* ------------------------------------------------------------- claims

\* C1: in no reachable state is the consumer blocked after check(_, true)
\* wrote SLEEP while a pushed message is in the queue and no wake is pending
\* (none called since SLEEP was written, no notify in flight that will call
\* one).
C1_NoSleepWithUnwokenMessage ==
    (cpc = "blocked" /\ queue # <<>>) => WakePending

\* the consumer is blocked, a notify has pushed and has not yet updated the
\* state, and no wakeup was called yet
C1_Witness ==
    /\ cpc = "blocked"
    /\ queue # <<>>
    /\ state = SLEEP
    /\ ~wokenSinceSleep
    /\ \E p \in Producers : pc[p] = "cas"

\* C2 as stated: once check(_, true) wrote SLEEP, the next notify whose
\* state update succeeds observed SLEEP, wrote 1 and calls wakeup exactly
\* once before it returns.
C2_NextNotifyAfterSleepWakes ==
    \A p \in Producers :
        (Updated(p) /\ wasArmed[p]) =>
            /\ cur[p] = SLEEP
            /\ wrote[p] = 1
            /\ nwake[p] = (IF pc[p] = "wake" THEN 0 ELSE 1)

\* C2 as amended: once check(_, true) wrote SLEEP, and unless a
\* check(_, false) updated the state in between, the next notify whose state
\* update succeeds observed SLEEP, wrote 1 and calls wakeup exactly once
\* before it returns.
C2_NextNotifyWhileAsleepWakes ==
    \A p \in Producers :
        (Updated(p) /\ wasAsleep[p]) =>
            /\ cur[p] = SLEEP
            /\ wrote[p] = 1
            /\ nwake[p] = (IF pc[p] = "wake" THEN 0 ELSE 1)

\* the first notify after check(_, true) wrote SLEEP is returning, having
\* called wakeup once
C2_Witness ==
    \E p \in Producers :
        /\ pc[p] = "ret"
        /\ wasAsleep[p]
        /\ nwake[p] = 1
        /\ wakes = 1

\* C3: poll never returns a message twice nor one that was not pushed, and
\* once no notify is in flight and poll has returned empty, the messages
\* returned by poll are exactly the pushed ones.
C3_NoLossNoDuplication ==
    /\ NoDup(polled)
    /\ Range(polled) \subseteq accepted
    /\ emptyAfterDone => Range(polled) = accepted

\* one notify was rejected, another accepted, and the consumer drained
C3_Witness ==
    /\ emptyAfterDone
    /\ polled # <<>>
    /\ \E p \in Producers : rejected[p]

\* C4: check(max, _) returns a value in 0..max.
C4_CheckReturnWithinMax ==
    cpc = "ret" => (0 <= cret /\ cret <= cmax)

\* C5: when check observes cur > 0 it returns min(cur, max).
C5_CheckReturnsMinOfCurAndMax ==
    (cpc = "ret" /\ ccur > 0) => cret = Min(ccur, cmax)

\* C6: the pending count in the state is at most the number of pushed
\* messages minus the sum of the values check returned.
C6_PendingWithinPushedMinusClaimed ==
    Pending <= Cardinality(accepted) - claimed

\* C7: a notify that finds the queue full returns the message as an error
\* value; it does not abort.
C7_FullQueueReturnsError ==
    \A p \in Producers :
        rejected[p] => (pc[p] # "panicked" /\ res[p] = "err")

\* C8: a notify whose wakeup fails returns an error value; it does not
\* abort.
C8_WakeFailureReturnsError ==
    \A p \in Producers :
        wakeErr[p] => (pc[p] # "panicked" /\ res[p] = "err")

\* C9: wakeup is called only by a notify whose successful update observed
\* SLEEP, at most once per call, and the wakeup calls made plus those about
\* to be made equal the SLEEP-to-1 updates; with no notify in flight the two
\* counts are equal.
C9_WakeOnlyOnSleepTransition ==
    /\ \A p \in Producers :
          /\ nwake[p] <= 1
          /\ (nwake[p] = 1 \/ pc[p] = "wake") => cur[p] = SLEEP
    /\ wakes + Cardinality({p \in Producers : pc[p] = "wake"}) = sleepTo1
    /\ Quiescent => wakes = sleepTo1

\* two notify calls raced after one SLEEP: one woke, the other wrote 2 and
\* did not
C9_Witness ==
    \E p, q \in Producers :
        /\ pc[p] = "ret" /\ nwake[p] = 1
        /\ pc[q] = "ret" /\ nwake[q] = 0 /\ wrote[q] = 2
        /\ wakes = 1

C11_NoWakeupAfterRelease == ~wakeAfterRelease

\* C12: a check that writes SLEEP was called with will_sleep, observed no
\* positive pending count, and returns 0.
C12_CheckSleepsOnlyWhenIdle ==
    (cpc = "ret" /\ cnxt = SLEEP) => (cws /\ ccur <= 0 /\ cret = 0)

\* C13: a successful notify update writes 1 when it observed SLEEP and
\* cur + 1 otherwise, the value written is at least 1, and the message of
\* that call was pushed before.
C13_NotifyWritesAtLeastOne ==
    \A p \in Producers :
        Updated(p) =>
            /\ wrote[p] = (IF cur[p] = SLEEP THEN 1 ELSE cur[p] + 1)
            /\ wrote[p] >= 1
            /\ Msg(p, sent[p]) \in accepted

\* C17: the state is SLEEP (-1) or a non-negative integer, never below -1.
C17_StateIsSleepOrNonNegative == state >= SLEEP

\* C18: a check(_, false) leaves the state at 0 or above, writes 0 and
\* returns 0 when it observed SLEEP, and the state is SLEEP only while the
\* last successful update is a check(_, true) that wrote SLEEP.
C18_SleepLeftOnlyByNotifyOrCheckFalse ==
    /\ (cpc = "ret" /\ ~cws) => cnxt >= 0
    /\ (cpc = "ret" /\ ~cws /\ ccur = SLEEP) => (cnxt = 0 /\ cret = 0)
    /\ (cpc = "ret" /\ cws /\ cnxt = SLEEP) => cret = 0
    /\ state = SLEEP => asleep

\* C19: check never leaves the state above the pending count it observed,
\* whatever the value of max.
C19_CheckNeverIncreasesPending ==
    cpc = "ret" => cnxt <= (IF ccur > 0 THEN ccur ELSE 0)

\* a step of poll: it returned a message or found the queue empty
PollStep ==
    /\ cpc = "ready"
    /\ cpc' = "ready"
    /\ polled' # polled \/ Len(queue') < Len(queue) \/ (drained' /\ ~drained)

\* a step of check: its load, a turn of its loop, or its return
CheckStep ==
    \/ nchecks' # nchecks
    \/ cpc = "cas" /\ (cpc' = "ret" \/ ccur' # ccur)
    \/ cpc = "ret" /\ cpc' = "ready"

\* C20: a poll step leaves the state as it is, a check step leaves the queue
\* and the messages returned so far as they are, and neither calls wakeup
\* nor raises the wake signal.
C20_PollAndCheckFrames ==
    [][/\ PollStep => UNCHANGED <<state, wakes, wakeFlag>>
       /\ CheckStep => UNCHANGED <<queue, polled, wakes, wakeFlag>>]_vars

\* poll returned every message so far and the state still counts them, a
\* check ran in between and another message waits in the queue
C20_Witness ==
    /\ polled # <<>>
    /\ state = Len(polled)
    /\ nchecks >= 1
    /\ cpc = "ready"
    /\ queue # <<>>

\* C16: a poll within the count the last check returned finds the queue
\* empty only if poll returned, outside any such count, a message the count
\* includes (or a check returned another count than it took, see C5): short
\* polls come from the consumer polling ahead of the count, which is
\* therefore no measure of the queue's depth.
C16_ShortPollOnlyAfterUnclaimedPoll ==
    (shortPoll /\ ~overClaimed) => polledUnclaimed

\* check returned 1 for a message that poll had returned before its notify
\* updated the state, and the next poll found the queue empty
C16_Witness ==
    /\ shortPoll
    /\ earlyPoll
    /\ ~overClaimed
    /\ claimed >= 1
    /\ queue = <<>>

\* some notify's awaken.wakeup() returned an error
WakeupFailed == \E p \in Producers : wakeErr[p]

NotifySucceeds(q) ==
    pc[q] = "cas" /\ state = cur[q] /\ pc'[q] \in {"wake", "ret"}

\* the compare_and_swap of check succeeds in this step
CheckSucceeds == cpc = "cas" /\ state = ccur /\ cpc' = "ret"

\* notify of p holds a stale value after this step only if it held the value
\* before, and the value was stale already or another call's compare_and_swap
\* succeeds in this step
NotifyStaleByOthers(p) ==
    (pc'[p] = "cas" /\ state' # cur'[p]) =>
        /\ pc[p] = "cas"
        /\ cur'[p] = cur[p]
        /\ \/ state # cur[p]
           \/ CheckSucceeds
           \/ \E q \in Producers \ {p} : NotifySucceeds(q)

\* the same for check
CheckStaleByOthers ==
    (cpc' = "cas" /\ state' # ccur') =>
        /\ cpc = "cas"
        /\ ccur' = ccur
        /\ \/ state # ccur
           \/ \E q \in Producers : NotifySucceeds(q)

\* C15: a call about to compare against a value that is no longer the state
\* read that value before, and the step that made it stale is the successful
\* compare_and_swap of another call; under fair scheduling every notify call
\* ends (it returns, or panics as in C7 and C8) and every check call returns.
C15_LockFree ==
    /\ [][CheckStaleByOthers /\ \A p \in Producers : NotifyStaleByOthers(p)]_vars
    /\ \A p \in Producers :
          (pc[p] \in {"load", "cas", "wake", "ret"}) ~>
              (pc[p] \in {"idle", "panicked"})
    /\ (cpc \in {"cas", "ret"}) ~> (cpc = "ready")

\* a notify and a check both hold a value made stale by the update of
\* another notify
C15_Witness ==
    \E p, q \in Producers :
        /\ p # q
        /\ pc[p] = "cas" /\ state # cur[p]
        /\ cpc = "cas" /\ state # ccur
        /\ pc[q] \in {"wake", "ret"} /\ wrote[q] = state

====
